---- MODULE Spec2Model ----
(***************************************************************************)
(* A model of the agent step loop of softlight_automation_framework:       *)
(*   - Agent.run and its helpers (agent/executor.py), with the control     *)
(*     calls pause()/resume()/stop() interleaved at the coroutine's        *)
(*     suspension points (every await of the loop);                        *)
(*   - TutorialAgent's action loop with its repeated-action detector       *)
(*     (tutorial/agent.py).                                                *)
(* The oracle (LLM) and the browser are the environment: their answers     *)
(* are drawn from small sets.                                              *)
(***************************************************************************)
EXTENDS Integers, Sequences, FiniteSets, TLC

(* ----------------------------- bounds --------------------------------- *)
\* Largest max_steps a run is started with.
MaxSteps == 2
\* settings.max_failures of the modelled runs.
max_failures == 2
\* Longest action list the oracle returns in one response.
MaxProposed == 2

\* max_steps of the modelled TutorialAgent runs.
TutorialMaxSteps == 6

\* Largest element index the driver reports, and the number of state
\* refreshes of one BrowserSession.
MaxIndex == 2
MaxRefreshes == 4

\* The number of nodes below the document root that one DOMExtractor is
\* given over all its extract() calls.
MaxVisited == 3

\* Largest max_length a DOMSerializer is configured with, and the largest
\* number of interactive elements of the DOM state it serializes.
MaxLength == 60
MaxElements == 2

\* Largest max_items a caller passes to get_history_description.
MaxItems == 2

\* Largest number of indexed elements of a DOM state whose lines are
\* ordered, and the largest x and y of their bounds.
MaxSortedElements == 3
MaxCoordinate == 1

\* Largest number of nodes of a DOM state whose page height is estimated.
MaxPageNodes == 2

\* The number of drivers one BrowserSession launches, and the number of
\* steps its operations count.
MaxLaunches == 3
MaxOperations == 3

\* Largest node table of a serializer whose statistics are followed, and
\* the number of serialize() calls made on it.
MaxTableNodes == 2
MaxSerializeCalls == 2

(* ------------------------ program constants --------------------------- *)
\* AgentSettings.max_actions_per_step, its default.
DefaultMaxActionsPerStep == 4
\* TutorialAgent._max_repeated_actions
MaxRepeatedActions == 2
\* The length _recent_actions is kept to.
RecentWindow == 10
\* "agent_output.action[:4]"
TutorialActionCap == 4
\* "max_items=self.max_history_items or 10"
DefaultHistoryItems == 10

(* ----------------------------- values --------------------------------- *)
\* Python's None, for the Optional fields.
NoneVal == "None"

\* Python truthiness of an Optional[str].
Truthy(s) == s # NoneVal /\ s # ""

\* tools/views.py: ActionResult(is_done, success, extracted_content, error).
ActionResult(d, s, c, e) ==
    [is_done |-> d, success |-> s, extracted_content |-> c, error |-> e]

\* ActionResult() with every field at its default.
EmptyResult == ActionResult(FALSE, NoneVal, NoneVal, NoneVal)

\* ActionResult(error=str(e)) built by the except clause of _execute_actions.
ErrorResult == ActionResult(FALSE, NoneVal, NoneVal, "error")

\* The text _force_completion falls back to.
FallbackText == "Task incomplete - max steps reached"

\* The action entries an oracle response may hold:
\*   click       a registered page action with parameters the schema accepts
\*   done_true   {"done": {"success": true, ...}}
\*   done_false  {"done": {"success": false, ...}}
\*   noop        the empty dict
\*   unknown     a name that is not registered
\*   invalid     a registered name with a dict the parameter model rejects
\*   non_dict    a registered name whose parameters are not a dict at all
\*               ({"go_back": "x"}, {"click": 5})
ActionNames == {"click", "done_true", "done_false", "noop", "unknown",
                "invalid", "non_dict"}

\* Outcomes with a done handler that reports success whatever its parameter.
Outcomes_DoneAlwaysTrue(a) ==
    CASE a \in {"done_true", "done_false"} ->
           {[raised |-> FALSE, handler |-> TRUE,
             result |-> ActionResult(TRUE, "true", "report", NoneVal)]}
      [] a \in {"unknown", "invalid"} ->
           {[raised |-> TRUE, handler |-> FALSE, result |-> ErrorResult]}
      [] OTHER ->
           {[raised |-> FALSE, handler |-> TRUE,
             result |-> ActionResult(FALSE, NoneVal, c, NoneVal)] :
                c \in {NoneVal, "data"}}
           \cup {[raised |-> FALSE, handler |-> TRUE, result |-> ErrorResult],
                 [raised |-> TRUE, handler |-> TRUE, result |-> ErrorResult]}

\* What tools.execute can do with one action: return a result or raise;
\* "handler" tells whether definition.handler was called.  An unregistered
\* name and a rejected dict raise before the handler; only a dict is
\* validated, so any other parameter value goes to the handler as it is.
\* A handler failure surfaces as a returned error result (the handlers with
\* their own try/except) or as a raised ActionError.
Outcomes(a) ==
    CASE a = "done_true"  ->
           {[raised |-> FALSE, handler |-> TRUE,
             result |-> ActionResult(TRUE, "true", "report", NoneVal)]}
      [] a = "done_false" ->
           {[raised |-> FALSE, handler |-> TRUE,
             result |-> ActionResult(TRUE, "false", "report", NoneVal)]}
      [] a \in {"unknown", "invalid"} ->
           {[raised |-> TRUE, handler |-> FALSE, result |-> ErrorResult]}
      [] OTHER ->
           {[raised |-> FALSE, handler |-> TRUE,
             result |-> ActionResult(FALSE, NoneVal, c, NoneVal)] :
                c \in {NoneVal, "data"}}
           \cup {[raised |-> FALSE, handler |-> TRUE, result |-> ErrorResult],
                 [raised |-> TRUE, handler |-> TRUE, result |-> ErrorResult]}

\* The oracle's action lists.
RECURSIVE SeqsUpTo(_, _)
SeqsUpTo(S, n) ==
    IF n = 0 THEN {<<>>}
    ELSE LET shorter == SeqsUpTo(S, n - 1)
         IN  shorter \cup {Append(s, x) : s \in {t \in shorter : Len(t) = n - 1}, x \in S}

Proposals == SeqsUpTo(ActionNames, MaxProposed) \ {<<>>}

\* What llm.complete / _parse_response make of one oracle call.
\*   llm_error        llm.complete raised (timeout, API error)
\*   invalid_json     the content is not JSON
\*   not_object       the JSON value is not an object
\*   empty_actions    "action" is missing or []
\*   non_dict_actions "action" is a non-empty list holding no dict
\*   actions          "action" is a non-empty list of dicts
ParseFailures == {"invalid_json", "not_object", "empty_actions"}
ResponseKinds == {"llm_error", "non_dict_actions", "actions"} \cup ParseFailures

(* ----------------------------- state ---------------------------------- *)
VARIABLES
    pc,                    \* where Agent.run is suspended
    max_steps,             \* max_steps of run()
    max_actions_per_step,  \* settings.max_actions_per_step
    n_steps,               \* state.n_steps
    consecutive_failures,  \* state.consecutive_failures
    is_done,               \* state.is_done
    is_paused,             \* state.is_paused
    is_stopped,            \* state.is_stopped
    success,               \* state.success
    history,               \* self.history.history
    todo,                  \* the actions of this step not yet finished
    results,               \* the results list of _execute_actions
    llm_out,               \* what the latest oracle call produced
    cached,                \* browser._current_state is set
    handler_ran,           \* the latest tools.execute call reached the handler
    dirty,                 \* a handler ran since the session last fetched a
                           \* state from the driver
    outcome,               \* how run() ended
    t_pc,                  \* where TutorialAgent.run is suspended
    t_n_steps,             \* TutorialAgent: state.n_steps
    t_failures,            \* TutorialAgent: state.consecutive_failures
    t_is_done,             \* TutorialAgent: state.is_done
    t_success,             \* TutorialAgent: state.success
    recent_actions,        \* TutorialAgent: self._recent_actions
    t_todo,                \* TutorialAgent: the actions of this step still to process
    t_results,             \* TutorialAgent: the results list of the step
    t_outcome,             \* how TutorialAgent.run's loop ended
    t_calls,               \* the calls the latest pass of the action loop made
                           \* on the browser (or the step's first get_state)
    cycle,                 \* the signatures the oracle proposes over and over
                           \* (<<>>: an oracle bound to no cycle)
    cycle_pos,             \* how far into its cycle the oracle's proposals are
    t_is_stopped           \* TutorialAgent: state.is_stopped

agentVars == <<pc, max_steps, max_actions_per_step, n_steps, consecutive_failures,
               is_done, is_paused, is_stopped, success, history, todo,
               results, llm_out, cached, handler_ran, dirty,
               outcome>>

tutorialVars == <<t_pc, t_n_steps, t_failures, t_is_done, t_success,
                  recent_actions, t_todo, t_results, t_outcome, t_calls,
                  cycle, cycle_pos, t_is_stopped>>

\* The library operations checked on their own, each on its own variables.
VARIABLES
    ar_kwargs,             \* ActionResult(...): the keyword arguments
    ar_built,              \* ActionResult(...): pending, built or rejected
    current_state,         \* BrowserSession._current_state
    previous_state,        \* BrowserSession._previous_state
    state_history,         \* BrowserSession._state_history (the urls)
    returned_state,        \* what the latest get_state() returned
    session_selector_map,  \* BrowserSession._selector_map: the indices it maps
    is_active,             \* BrowserSession._is_active
    driver,                \* BrowserSession._driver: 0 is None, k the driver of
                           \* the k-th launch
    launches,              \* the BrowserDriver objects start() has created
    handlers,              \* the event types the event bus has a handler for
    dispatched,            \* the latest event a session operation dispatched
    step_count,            \* BrowserSession._step_count
    node_table,            \* DOMSerializer: dom_state.nodes, in the order of its values()
    stats,                 \* DOMSerializer.stats
    serialize_returns,     \* what the serialize() calls on the serializer returned
    interactive_index,     \* DOMExtractor._interactive_index
    selector_map,          \* DOMExtractor._selector_map: index -> node_id
    nodes,                 \* DOMExtractor._nodes: node_id -> node
    dom_tree,              \* the tree the latest extract() got from CDP
    visited,               \* nodes of the trees this extractor was given so far
    extracted,             \* how the latest extract() ended
    failed_sources,        \* the raw sources the latest extract() failed to get
    ser_pc,                \* the serializer call: pending, or which one returned
    ser_input,             \* the DOM state and max_length given to the serializer
    serialized,            \* the SerializedDOM of DOMSerializer.serialize()
    llm_text,              \* the length of what serialize_dom_for_llm returned
    history_description,   \* the latest get_history_description: its limit and items
    fn,                    \* the function of the DOM views under check
    fn_args,               \* the arguments it is called with
    fn_result              \* what it returned, <<>> before it did

constructVars == <<ar_kwargs, ar_built>>

sessionVars == <<current_state, previous_state, state_history, returned_state,
                 session_selector_map>>

extractorVars == <<interactive_index, selector_map, nodes, dom_tree, visited,
                   extracted, failed_sources>>

serializerVars == <<ser_pc, ser_input, serialized, llm_text>>

promptVars == <<history_description>>

viewVars == <<fn, fn_args, fn_result>>

lifecycleVars == <<is_active, driver, launches, handlers, dispatched, step_count>>

statsVars == <<node_table, stats, serialize_returns>>

libraryVars == <<constructVars, sessionVars, extractorVars, serializerVars,
                 promptVars, viewVars, lifecycleVars, statsVars>>

\* What each library operation leaves alone.
notConstruct ==
    <<agentVars, tutorialVars, sessionVars, extractorVars, serializerVars, promptVars,
      viewVars, lifecycleVars, statsVars>>
notSession ==
    <<agentVars, tutorialVars, constructVars, extractorVars, serializerVars, promptVars,
      viewVars, lifecycleVars, statsVars>>
notExtractor ==
    <<agentVars, tutorialVars, constructVars, sessionVars, serializerVars, promptVars,
      viewVars, lifecycleVars, statsVars>>
notSerializer ==
    <<agentVars, tutorialVars, constructVars, sessionVars, extractorVars, promptVars,
      viewVars, lifecycleVars, statsVars>>

vars == <<agentVars, tutorialVars, libraryVars>>

\* What the actions of Agent leave alone.
notAgent == <<tutorialVars, libraryVars>>

\* What the actions of TutorialAgent leave alone.
notTutorial == <<agentVars, libraryVars>>

InStep == {"get_state", "llm", "execute", "refresh"}

(* --------------------------- Agent.run -------------------------------- *)
AgentInit ==
    /\ pc = "ready"
    /\ max_steps \in 1..MaxSteps
    /\ max_actions_per_step \in {1, DefaultMaxActionsPerStep}
    /\ n_steps = 0
    /\ consecutive_failures = 0
    /\ is_done = FALSE
    /\ is_paused = FALSE
    /\ is_stopped = FALSE
    /\ success = NoneVal
    /\ history = <<>>
    /\ todo = <<>>
    /\ results = <<>>
    /\ llm_out = NoneVal
    /\ cached = FALSE
    /\ handler_ran = FALSE
    /\ dirty = FALSE
    /\ outcome = NoneVal

\* run(): the statements before the loop.
Run ==
    /\ UNCHANGED <<notAgent, handler_ran, dirty>>
    /\ pc = "ready"
    /\ pc' = "loop"
    /\ n_steps' = 0
    /\ UNCHANGED <<max_steps, max_actions_per_step, consecutive_failures, is_done,
                   is_paused, is_stopped, success, history, todo, results,
                   llm_out, cached, outcome>>

\* The code after the loop: forced completion, or the return.
AfterLoop ==
    IF n_steps >= max_steps /\ ~is_done
    THEN pc' = "force" /\ UNCHANGED outcome
    ELSE pc' = "ended" /\ outcome' = "returned"

\* _execute_step() up to its first await.
BeginStep == pc' = "get_state" /\ UNCHANGED outcome

\* LoopHead with the while condition testing the step count only: a Done
\* state does not end the loop.
LoopHead_IgnoresDone ==
    /\ UNCHANGED <<notAgent, handler_ran, dirty>>
    /\ pc = "loop"
    /\ IF n_steps < max_steps
       THEN IF is_stopped THEN AfterLoop
            ELSE IF is_paused THEN pc' = "sleep" /\ UNCHANGED outcome
            ELSE BeginStep
       ELSE AfterLoop
    /\ UNCHANGED <<max_steps, max_actions_per_step, n_steps, consecutive_failures,
                   is_done, is_paused, is_stopped, success, history, todo,
                   results, llm_out, cached>>

\* One evaluation of the while condition, the stop check and the pause check.
LoopHead ==
    /\ UNCHANGED <<notAgent, handler_ran, dirty>>
    /\ pc = "loop"
    /\ IF ~is_done /\ n_steps < max_steps
       THEN IF is_stopped THEN AfterLoop
            ELSE IF is_paused THEN pc' = "sleep" /\ UNCHANGED outcome
            ELSE BeginStep
       ELSE AfterLoop
    /\ UNCHANGED <<max_steps, max_actions_per_step, n_steps, consecutive_failures,
                   is_done, is_paused, is_stopped, success, history, todo,
                   results, llm_out, cached>>

\* PauseWait with the pause loop leaving after one sleep, flag or no flag.
PauseWait_OneSleep ==
    /\ UNCHANGED <<notAgent, handler_ran, dirty>>
    /\ pc = "sleep"
    /\ BeginStep
    /\ UNCHANGED <<max_steps, max_actions_per_step, n_steps, consecutive_failures,
                   is_done, is_paused, is_stopped, success, history, todo,
                   results, llm_out, cached>>

\* asyncio.sleep(0.1) returns inside "while self.state.is_paused".
PauseWait ==
    /\ UNCHANGED <<notAgent, handler_ran, dirty>>
    /\ pc = "sleep"
    /\ IF is_paused THEN pc' = "sleep" /\ UNCHANGED outcome ELSE BeginStep
    /\ UNCHANGED <<max_steps, max_actions_per_step, n_steps, consecutive_failures,
                   is_done, is_paused, is_stopped, success, history, todo,
                   results, llm_out, cached>>

\* StepFailed with run() counting only the steps that did not raise.
StepFailed_NoCount ==
    /\ consecutive_failures' = consecutive_failures + 1
    /\ IF consecutive_failures + 1 >= max_failures
       THEN /\ pc' = "ended"
            /\ outcome' = "MaxFailuresReachedError"
            /\ UNCHANGED n_steps
       ELSE /\ pc' = "loop"
            /\ UNCHANGED <<n_steps, outcome>>
    /\ UNCHANGED <<is_done, success, history>>

\* The except clause of run(): the step raised.
StepFailed ==
    /\ consecutive_failures' = consecutive_failures + 1
    /\ IF consecutive_failures + 1 >= max_failures
       THEN /\ pc' = "ended"
            /\ outcome' = "MaxFailuresReachedError"
            /\ UNCHANGED n_steps
       ELSE /\ pc' = "loop"
            /\ n_steps' = n_steps + 1
            /\ UNCHANGED outcome
    /\ UNCHANGED <<is_done, success, history>>

\* "return results if results else [ActionResult()]".
Returned(res) == IF res = <<>> THEN <<EmptyResult>> ELSE res

\* The first result with is_done, 0 if none.
FirstDone(res) ==
    IF \E i \in 1..Len(res) : res[i].is_done
    THEN CHOOSE i \in 1..Len(res) :
            res[i].is_done /\ \A j \in 1..(i - 1) : ~res[j].is_done
    ELSE 0

\* The reset test with nothing to test: every list of results passes.
NoError_Always(res) == TRUE

\* "if not any(r.error for r in results)".
NoError(res) == \A i \in 1..Len(res) : ~Truthy(res[i].error)

\* FinishStep with the done check reading the last result's success flag
\* into state.success but leaving state.is_done alone.
FinishStep_NoDoneFlag(res) ==
    /\ history' = Append(history, [model_output |-> "output", results |-> Returned(res)])
    /\ IF FirstDone(Returned(res)) # 0
       THEN /\ success' = Returned(res)[FirstDone(Returned(res))].success
            /\ UNCHANGED is_done
       ELSE UNCHANGED <<is_done, success>>
    /\ consecutive_failures' =
           IF NoError(Returned(res)) THEN 0 ELSE consecutive_failures
    /\ n_steps' = n_steps + 1
    /\ pc' = "loop"
    /\ UNCHANGED outcome

\* The rest of _execute_step() once _execute_actions has returned res, and
\* the n_steps += 1 of run().
FinishStep(res) ==
    /\ history' = Append(history, [model_output |-> "output", results |-> Returned(res)])
    /\ IF FirstDone(Returned(res)) # 0
       THEN /\ is_done' = TRUE
            /\ success' = Returned(res)[FirstDone(Returned(res))].success
       ELSE UNCHANGED <<is_done, success>>
    /\ consecutive_failures' =
           IF NoError(Returned(res)) THEN 0 ELSE consecutive_failures
    /\ n_steps' = n_steps + 1
    /\ pc' = "loop"
    /\ UNCHANGED outcome

\* "if not action: continue": the empty dicts at the front are skipped.
RECURSIVE SkipEmpty(_)
SkipEmpty(acts) ==
    IF acts = <<>> THEN <<>>
    ELSE IF Head(acts) = "noop" THEN SkipEmpty(Tail(acts)) ELSE acts

\* The slice without its bound: every proposed action is kept.
Capped_Uncapped(acts) == acts

\* actions[:max_actions_per_step]
Capped(acts) == SubSeq(acts, 1, IF Len(acts) < max_actions_per_step
                                 THEN Len(acts) ELSE max_actions_per_step)

\* The step's first get_state without force_refresh: a state the session
\* holds is returned as it is, and only a session without one asks the
\* driver.
StepGetState_Cached ==
    /\ UNCHANGED <<notAgent, handler_ran>>
    /\ pc = "get_state"
    /\ \E ok \in BOOLEAN :
          IF cached \/ ok
          THEN /\ pc' = "llm"
               /\ cached' = TRUE
               /\ dirty' = (cached /\ dirty)
               /\ UNCHANGED <<n_steps, consecutive_failures, is_done, success,
                              history, outcome>>
          ELSE StepFailed /\ UNCHANGED <<cached, dirty>>
    /\ UNCHANGED <<max_steps, max_actions_per_step, is_paused, is_stopped, todo,
                   results, llm_out>>

\* browser.get_state(force_refresh=True) at the start of the step returns.
StepGetState ==
    /\ UNCHANGED <<notAgent, handler_ran>>
    /\ pc = "get_state"
    /\ \E ok \in BOOLEAN :
          IF ok
          THEN /\ pc' = "llm"
               /\ cached' = TRUE
               /\ dirty' = FALSE
               /\ UNCHANGED <<n_steps, consecutive_failures, is_done, success,
                              history, outcome>>
          ELSE StepFailed /\ UNCHANGED <<cached, dirty>>
    /\ UNCHANGED <<max_steps, max_actions_per_step, is_paused, is_stopped, todo,
                   results, llm_out>>

\* llm.complete returns (or raises) and _parse_response runs; the actions
\* are handed to _execute_actions, which runs to its first await.
StepLLM ==
    /\ UNCHANGED <<notAgent, dirty>>
    /\ handler_ran' = FALSE
    /\ pc = "llm"
    /\ \E kind \in ResponseKinds :
       \E acts \in IF kind = "actions" THEN Proposals ELSE {<<>>} :
          /\ llm_out' = kind
          /\ IF kind = "llm_error" \/ kind \in ParseFailures
             THEN StepFailed /\ UNCHANGED <<todo, results>>
             ELSE LET given == IF kind = "actions" THEN acts ELSE <<>>
                      first == SkipEmpty(Capped(given))
                  IN  IF first = <<>>
                      THEN FinishStep(<<>>) /\ UNCHANGED <<todo, results>>
                      ELSE /\ pc' = "execute"
                           /\ todo' = first
                           /\ results' = <<>>
                           /\ UNCHANGED <<n_steps, consecutive_failures, is_done,
                                          success, history, outcome>>
    /\ UNCHANGED <<max_steps, max_actions_per_step, is_paused, is_stopped, cached>>

\* tools.execute returns (or raises) for the action at the head of todo.
StepExecute ==
    /\ UNCHANGED notAgent
    /\ pc = "execute"
    /\ \E out \in Outcomes(Head(todo)) :
          LET res == Append(results, out.result)
          IN  /\ handler_ran' = out.handler
              /\ dirty' = (dirty \/ out.handler)
              /\ IF out.raised \/ Truthy(out.result.error) \/ out.result.is_done
                 THEN FinishStep(res) /\ todo' = <<>> /\ results' = <<>>
                 ELSE /\ pc' = "refresh"
                      /\ results' = res
                      /\ UNCHANGED <<todo, n_steps, consecutive_failures, is_done,
                                     success, history, outcome>>
    /\ UNCHANGED <<max_steps, max_actions_per_step, is_paused, is_stopped, llm_out, cached>>

\* browser.get_state(force_refresh=True) after an action returns (or raises).
StepRefresh ==
    /\ UNCHANGED <<notAgent, handler_ran>>
    /\ pc = "refresh"
    /\ \E ok \in BOOLEAN :
          IF ok
          THEN LET next == SkipEmpty(Tail(todo))
               IN  /\ cached' = TRUE
                   /\ dirty' = FALSE
                   /\ IF next = <<>>
                      THEN FinishStep(results) /\ todo' = <<>> /\ results' = <<>>
                      ELSE /\ pc' = "execute"
                           /\ todo' = next
                           /\ UNCHANGED <<results, n_steps, consecutive_failures,
                                          is_done, success, history, outcome>>
          ELSE /\ FinishStep(Append(results, ErrorResult))
               /\ todo' = <<>> /\ results' = <<>>
               /\ UNCHANGED <<cached, dirty>>
    /\ UNCHANGED <<max_steps, max_actions_per_step, is_paused, is_stopped, llm_out>>

\* AgentHistoryList.final_result()
final_result(h) ==
    IF h # <<>> /\ h[Len(h)].results # <<>>
    THEN h[Len(h)].results[Len(h[Len(h)].results)].extracted_content
    ELSE NoneVal

\* "self.history.final_result() or <fallback>"
ForcedContent(h) ==
    IF Truthy(final_result(h)) THEN final_result(h) ELSE FallbackText

\* _force_completion(): browser.get_state() returns the cached state, or
\* asks the driver when there is none, which may raise.
ForceCompletion ==
    /\ UNCHANGED <<notAgent, handler_ran, dirty>>
    /\ pc = "force"
    /\ \E ok \in BOOLEAN :
          IF cached \/ ok
          THEN /\ history' = Append(history,
                     [model_output |-> NoneVal,
                      results |-> <<ActionResult(TRUE, "false", ForcedContent(history), NoneVal)>>])
               /\ is_done' = TRUE
               /\ success' = "false"
               /\ cached' = TRUE
               /\ outcome' = "returned"
          ELSE /\ outcome' = "BrowserError"
               /\ UNCHANGED <<history, is_done, success, cached>>
    /\ pc' = "ended"
    /\ UNCHANGED <<max_steps, max_actions_per_step, n_steps, consecutive_failures,
                   is_paused, is_stopped, todo, results, llm_out>>

\* Agent.pause()
Pause ==
    /\ UNCHANGED <<notAgent, handler_ran, dirty>>
    /\ pc # "ended"
    /\ is_paused' = TRUE
    /\ UNCHANGED <<pc, max_steps, max_actions_per_step, n_steps, consecutive_failures,
                   is_done, is_stopped, success, history, todo, results,
                   llm_out, cached, outcome>>

\* Agent.resume()
Resume ==
    /\ UNCHANGED <<notAgent, handler_ran, dirty>>
    /\ pc # "ended"
    /\ is_paused' = FALSE
    /\ UNCHANGED <<pc, max_steps, max_actions_per_step, n_steps, consecutive_failures,
                   is_done, is_stopped, success, history, todo, results,
                   llm_out, cached, outcome>>

\* Agent.stop()
Stop ==
    /\ UNCHANGED <<notAgent, handler_ran, dirty>>
    /\ pc # "ended"
    /\ is_stopped' = TRUE
    /\ UNCHANGED <<pc, max_steps, max_actions_per_step, n_steps, consecutive_failures,
                   is_done, is_paused, success, history, todo, results,
                   llm_out, cached, outcome>>

AgentNext ==
    \/ Run
    \/ LoopHead
    \/ PauseWait
    \/ StepGetState
    \/ StepLLM
    \/ StepExecute
    \/ StepRefresh
    \/ ForceCompletion
    \/ Pause
    \/ Resume
    \/ Stop

(* ------------------------ TutorialAgent.run --------------------------- *)
\* The action entries of the tutorial runs: a click, a passive wait, the done
\* action with either success flag, an empty dict.
TutorialActions == {"click", "wait", "done_true", "done_false", "noop"}

TutorialProposals == SeqsUpTo(TutorialActions, MaxProposed) \ {<<>>}

\* f"{action_name}:{json.dumps(params, sort_keys=True)}": one signature per
\* name and parameters; each entry above stands for one choice of both.
Signature(a) == a

\* "if action_name in ["wait", "screenshot"]: return": the actions after
\* which _capture_action_state fetches no state.
PassiveActions == {"wait"}

\* What tools.execute followed by _capture_action_state can do with one
\* action: "raised" is "no", "navigation" (an exception whose text names
\* the execution context or a navigation) or "other"; "appended" tells
\* whether the result was appended (so that it was the capture that
\* raised), "refreshed" whether the capture's
\* browser.get_state(force_refresh=True) returned.
TutorialOutcomes(a) ==
    LET rs == CASE a = "done_true"  -> {ActionResult(TRUE, "true", "report", NoneVal)}
                [] a = "done_false" -> {ActionResult(TRUE, "false", "report", NoneVal)}
                [] OTHER -> {EmptyResult, ErrorResult}
        execute == IF a \in {"done_true", "done_false"} THEN {} ELSE {"navigation", "other"}
        capture == IF a \in PassiveActions THEN {} ELSE {"navigation", "other"}
    IN  {[raised |-> "no", appended |-> TRUE, result |-> r,
          refreshed |-> a \notin PassiveActions] : r \in rs}
        \cup {[raised |-> k, appended |-> FALSE, result |-> EmptyResult,
               refreshed |-> FALSE] : k \in execute}
        \cup {[raised |-> k, appended |-> TRUE, result |-> r, refreshed |-> f] :
                  k \in capture, r \in rs, f \in BOOLEAN}

TutorialInit ==
    /\ t_pc = "loop"
    /\ t_n_steps = 0
    /\ t_failures = 0
    /\ t_is_done = FALSE
    /\ t_success = NoneVal
    /\ recent_actions = <<>>
    /\ t_todo = <<>>
    /\ t_results = <<>>
    /\ t_outcome = NoneVal
    /\ t_calls = <<>>
    /\ cycle = <<>>
    /\ cycle_pos = 0
    /\ t_is_stopped = FALSE

\* Windows an earlier run() of the same TutorialAgent left behind: the
\* window is created in __init__ only, and run() starts over with n_steps
\* at 0 and the window as it is.  Here the earlier run took three steps of
\* three actions and ended with its steps used up.
PriorWindows ==
    {<<"scroll", "input", "navigate", "scroll", "input", "navigate",
       "scroll", "input", "navigate">>}

\* The start of a later run() on an agent whose earlier run was not done.
TutorialRerunInit ==
    /\ t_pc = "loop"
    /\ t_n_steps = 0
    /\ t_failures = 0
    /\ t_is_done = FALSE
    /\ t_success = NoneVal
    /\ recent_actions \in PriorWindows
    /\ t_todo = <<>>
    /\ t_results = <<>>
    /\ t_outcome = NoneVal
    /\ t_calls = <<>>
    /\ cycle = <<>>
    /\ cycle_pos = 0
    /\ t_is_stopped = FALSE

\* The cycles of the oracles that propose one cycle of signatures for
\* ever: of period 1, 2 and 3, the signatures of a cycle all different.
Cycles == {<<"click">>, <<"click", "wait">>, <<"click", "wait", "scroll">>}

\* The start of run() with an oracle that repeats one of the cycles.
TutorialCycleInit ==
    /\ t_pc = "loop"
    /\ t_n_steps = 0
    /\ t_failures = 0
    /\ t_is_done = FALSE
    /\ t_success = NoneVal
    /\ recent_actions = <<>>
    /\ t_todo = <<>>
    /\ t_results = <<>>
    /\ t_outcome = NoneVal
    /\ t_calls = <<>>
    /\ cycle \in Cycles
    /\ cycle_pos = 0
    /\ t_is_stopped = FALSE

\* What one step's get_state, llm.complete and _parse_response can come to:
\* an exception, a response whose actions are no list of dicts, a response
\* with actions.  An oracle that repeats a cycle answers with actions.
OracleKinds ==
    IF cycle = <<>> THEN {"failed", "non_dict_actions", "actions"}
    ELSE {"failed", "actions"}

\* The next k signatures of the oracle's cycle.
CycleFrom(k) == [i \in 1..k |-> cycle[((cycle_pos + i - 1) % Len(cycle)) + 1]]

\* The action lists of the responses of one kind: any short list for an
\* oracle bound to no cycle, the next signatures of its cycle (as many as a
\* step executes at most) for one that repeats a cycle.
Responses(kind) ==
    IF kind # "actions" THEN {<<>>}
    ELSE IF cycle = <<>> THEN TutorialProposals
    ELSE {CycleFrom(k) : k \in 1..TutorialActionCap}

\* _count_repeated_actions
CountRepeated(sig) ==
    Cardinality({i \in 1..Len(recent_actions) : recent_actions[i] = sig})

\* _is_action_repeated with ">" for ">=".
IsActionRepeated_OffByOne(sig) == CountRepeated(sig) > MaxRepeatedActions

\* _is_action_repeated
IsActionRepeated(sig) == CountRepeated(sig) >= MaxRepeatedActions

\* StillLooping with ">" for ">=".
StillLooping_OffByOne(sig) == CountRepeated(sig) > MaxRepeatedActions + 2

\* "if self._count_repeated_actions(action_sig) >= self._max_repeated_actions + 2"
StillLooping(sig) == CountRepeated(sig) >= MaxRepeatedActions + 2

\* The result the detector appends when it gives up.
LoopResult == ActionResult(TRUE, "false", "Task incomplete - got stuck in a loop", NoneVal)

\* Track with the pop(0) one entry early.
Track_OffByOne(sig) ==
    LET r == Append(recent_actions, sig)
    IN  IF Len(r) >= RecentWindow THEN Tail(r) ELSE r

\* "self._recent_actions.append(sig)" and the pop(0) past ten entries.
Track(sig) ==
    LET r == Append(recent_actions, sig)
    IN  IF Len(r) > RecentWindow THEN Tail(r) ELSE r

\* The while condition and the stop check of TutorialAgent.run.
TutorialLoopHead ==
    /\ UNCHANGED notTutorial
    /\ t_pc = "loop"
    /\ IF ~t_is_done /\ t_n_steps < TutorialMaxSteps /\ ~t_is_stopped
       THEN t_pc' = "get_state" /\ UNCHANGED t_outcome
       ELSE t_pc' = "ended" /\ t_outcome' = "returned"
    /\ t_calls' = <<>>
    /\ UNCHANGED <<t_n_steps, t_failures, t_is_done, t_success, recent_actions,
                   t_todo, t_results, cycle, cycle_pos, t_is_stopped>>

\* The except clause of TutorialAgent.run.
TutorialStepFailed ==
    /\ t_failures' = t_failures + 1
    /\ IF t_failures + 1 >= max_failures
       THEN /\ t_pc' = "ended"
            /\ t_outcome' = "MaxFailuresReachedError"
            /\ UNCHANGED t_n_steps
       ELSE /\ t_pc' = "loop"
            /\ t_n_steps' = t_n_steps + 1
            /\ UNCHANGED t_outcome
    /\ UNCHANGED <<t_is_done, t_success>>

\* The rest of TutorialAgent._execute_step once the actions returned res.
TutorialFinishStep(res) ==
    /\ IF FirstDone(Returned(res)) # 0
       THEN /\ t_is_done' = TRUE
            /\ t_success' = Returned(res)[FirstDone(Returned(res))].success
       ELSE UNCHANGED <<t_is_done, t_success>>
    /\ t_failures' = IF NoError(Returned(res)) THEN 0 ELSE t_failures
    /\ t_n_steps' = t_n_steps + 1
    /\ t_pc' = "loop"
    /\ t_todo' = <<>>
    /\ t_results' = <<>>
    /\ UNCHANGED t_outcome

\* browser.get_state, llm.complete and _parse_response of one step: the
\* step fails, or hands the first four actions to the action loop.
TutorialStepLLM ==
    /\ UNCHANGED notTutorial
    /\ t_pc = "get_state"
    /\ \E kind \in OracleKinds :
       \E acts \in Responses(kind) :
          /\ t_calls' = IF kind = "failed" THEN <<>> ELSE <<"get_state">>
          /\ cycle_pos' = IF cycle = <<>> THEN 0
                          ELSE (cycle_pos + Len(acts)) % Len(cycle)
          /\ IF kind = "failed"
             THEN TutorialStepFailed /\ UNCHANGED <<t_todo, t_results>>
             ELSE LET first == SkipEmpty(SubSeq(acts, 1,
                                  IF Len(acts) < TutorialActionCap
                                  THEN Len(acts) ELSE TutorialActionCap))
                  IN  IF first = <<>>
                      THEN TutorialFinishStep(<<>>)
                      ELSE /\ t_pc' = "act"
                           /\ t_todo' = first
                           /\ t_results' = <<>>
                           /\ UNCHANGED <<t_n_steps, t_failures, t_is_done,
                                          t_success, t_outcome>>
    /\ UNCHANGED <<recent_actions, cycle, t_is_stopped>>

\* One pass of the for loop of _execute_and_capture_actions, for the action
\* at the head of t_todo.
TutorialAction ==
    /\ UNCHANGED <<notTutorial, cycle, cycle_pos, t_is_stopped>>
    /\ t_pc = "act"
    /\ LET a == Head(t_todo)
           sig == Signature(a)
           next == SkipEmpty(Tail(t_todo))
           escape == IF IsActionRepeated(sig) THEN <<"Escape">> ELSE <<>>
       IN  IF IsActionRepeated(sig) /\ StillLooping(sig)
           THEN /\ TutorialFinishStep(Append(t_results, LoopResult))
                /\ t_calls' = escape
                /\ UNCHANGED recent_actions
           ELSE /\ recent_actions' = Track(sig)
                /\ \E out \in TutorialOutcomes(a) :
                      LET r1 == IF out.appended
                                THEN Append(t_results, out.result) ELSE t_results
                          res == CASE out.raised = "no" -> r1
                                   [] out.raised = "navigation" -> Append(r1, EmptyResult)
                                   [] OTHER -> Append(r1, ErrorResult)
                          stop == \/ out.raised = "other"
                                  \/ /\ out.raised = "no"
                                     /\ (Truthy(out.result.error) \/ out.result.is_done)
                      IN  /\ t_calls' = escape \o <<"execute">> \o
                                 (IF out.refreshed THEN <<"get_state">> ELSE <<>>)
                          /\ IF stop \/ next = <<>>
                             THEN TutorialFinishStep(res)
                             ELSE /\ t_todo' = next
                                  /\ t_results' = res
                                  /\ UNCHANGED <<t_pc, t_n_steps, t_failures,
                                                 t_is_done, t_success, t_outcome>>

\* The caller sets state.is_stopped while run() is suspended.
TutorialStop ==
    /\ UNCHANGED notTutorial
    /\ t_pc # "ended"
    /\ t_is_stopped' = TRUE
    /\ UNCHANGED <<t_pc, t_n_steps, t_failures, t_is_done, t_success,
                   recent_actions, t_todo, t_results, t_outcome, t_calls,
                   cycle, cycle_pos>>

\* "success = self.state.success or False": what run() reports to
\* complete_workflow.
workflow_success == t_success = "true"

(* ------------------- ActionResult construction ------------------------ *)
\* The keyword arguments a caller may pass (each of its declared type).
ResultArgs ==
    [is_done : BOOLEAN, success : {"true", "false", NoneVal},
     extracted_content : {NoneVal, "", "data"}, error : {NoneVal, "", "error"}]

\* ActionResult.validate_success_requires_done: TRUE if it returns self,
\* FALSE if it raises ValueError.
validate_success_requires_done(r) == ~(r.success = "true" /\ r.is_done # TRUE)

ConstructInit ==
    /\ ar_kwargs \in ResultArgs
    /\ ar_built = "pending"

\* No ActionResult is being constructed.
ConstructIdle ==
    /\ ar_kwargs = EmptyResult
    /\ ar_built = "idle"

\* ActionResult(**ar_kwargs): the fields are set, then the validator runs.
Construct ==
    /\ ar_built = "pending"
    /\ ar_built' = IF validate_success_requires_done(ar_kwargs)
                   THEN "built" ELSE "rejected"
    /\ UNCHANGED <<ar_kwargs, notConstruct>>

(* ---------------------- BrowserSession.get_state ---------------------- *)
\* A BrowserState: its url, the indices of its elements, and the indices of
\* the elements whose is_new is set.
Urls == {"a", "b"}

\* None, where a BrowserState is expected.
NoState == [url |-> NoneVal, elements |-> {}, new |-> {}]

\* What driver.get_browser_state() returns: is_new is False on every element.
FreshStates ==
    {[url |-> u, elements |-> e, new |-> {}] : u \in Urls, e \in SUBSET (1..MaxIndex)}

\* BrowserState.mark_new_elements(previous_state)
mark_new_elements(state, previous) ==
    IF previous = NoState \/ state.url # previous.url
    THEN state
    ELSE [state EXCEPT !.new = state.elements \ previous.elements]

SessionInit ==
    /\ current_state = NoState
    /\ previous_state = NoState
    /\ state_history = <<>>
    /\ returned_state = NoState
    /\ session_selector_map = {}

\* The index sets of the selector map that one call of
\* driver.get_interactive_elements() builds: the indices of the elements the
\* page has when its script is evaluated.
SelectorMaps == {s.elements : s \in FreshStates}

\* get_state(force_refresh): the cached state, or a fresh one from the
\* driver, marked against _previous_state and then made the current one.
\* The selector map comes from a second get_interactive_elements() call,
\* made after get_browser_state() has returned (its own extraction, the
\* screenshot and the other awaits lie in between): it holds the indices
\* of the page as it is by then.
GetState ==
    /\ \E force_refresh \in BOOLEAN :
          IF ~force_refresh /\ current_state # NoState
          THEN /\ returned_state' = current_state
               /\ UNCHANGED <<current_state, previous_state, state_history,
                              session_selector_map>>
          ELSE /\ Len(state_history) < MaxRefreshes
               /\ \E fresh \in FreshStates, second \in SelectorMaps :
                     LET state == IF previous_state # NoState
                                  THEN mark_new_elements(fresh, previous_state)
                                  ELSE fresh
                     IN  /\ session_selector_map' = second
                         /\ previous_state' = current_state
                         /\ current_state' = state
                         /\ state_history' = Append(state_history, state.url)
                         /\ returned_state' = state
    /\ UNCHANGED notSession

\* A BrowserSession on which get_state is never called.
SessionIdle == SessionInit

(* ------------------ BrowserSession start and stop --------------------- *)
\* The event types of navigate, click, type_text and send_keys.
EventTypes == {"navigation", "click", "type", "send_keys"}

\* No event has been dispatched yet.
NoEvent == [event_type |-> NoneVal, outcome |-> NoneVal, reached |-> 0]

\* BrowserSession.__init__: no driver, and _register_event_handlers has
\* subscribed a handler for every event type.
LifecycleInit ==
    /\ is_active = FALSE
    /\ driver = 0
    /\ launches = 0
    /\ handlers = EventTypes
    /\ dispatched = NoEvent
    /\ step_count = 0

\* A BrowserSession that is constructed and never used.
LifecycleIdle == LifecycleInit

\* What the actions of the session's life cycle leave alone.
notLifecycle ==
    <<agentVars, tutorialVars, constructVars, sessionVars, extractorVars,
      serializerVars, promptVars, viewVars, statsVars>>

\* start(): nothing on an active session; else a new driver is created and
\* launched, and the session is active once the launch has returned.
StartSession ==
    /\ IF is_active
       THEN UNCHANGED <<driver, launches, is_active>>
       ELSE /\ launches < MaxLaunches
            /\ launches' = launches + 1
            /\ driver' = launches + 1
            /\ \E launched \in BOOLEAN : is_active' = launched
    /\ UNCHANGED <<handlers, dispatched, step_count, notLifecycle>>

\* stop(): nothing on an inactive session; else the driver is closed and
\* dropped and the event bus loses all its handlers.
StopSession ==
    /\ IF ~is_active
       THEN UNCHANGED <<driver, is_active, handlers>>
       ELSE /\ driver' = 0
            /\ is_active' = FALSE
            /\ handlers' = {}
    /\ UNCHANGED <<launches, dispatched, step_count, notLifecycle>>

\* EventBus.dispatch(event) followed by event.wait_for_result(): the
\* handlers subscribed for the event's type run; a handler calls the
\* driver (an exception of the call, or of calling None, is set on the
\* event and raised by wait_for_result); an event that no handler took is
\* completed with the result None.
Dispatch(event_type) ==
    IF event_type \in handlers
    THEN IF driver = 0
         THEN {[event_type |-> event_type, outcome |-> "raised", reached |-> 0]}
         ELSE {[event_type |-> event_type, outcome |-> o, reached |-> driver] :
                  o \in {"handled", "raised"}}
    ELSE {[event_type |-> event_type, outcome |-> "completed", reached |-> 0]}

\* navigate, click, type_text, send_keys: the event is dispatched and
\* awaited; all but send_keys then count a step.
SessionOperation ==
    /\ step_count < MaxOperations
    /\ \E event_type \in EventTypes :
       \E event \in Dispatch(event_type) :
          /\ dispatched' = event
          /\ step_count' = IF event.outcome # "raised" /\ event_type # "send_keys"
                           THEN step_count + 1 ELSE step_count
    /\ UNCHANGED <<is_active, driver, launches, handlers, notLifecycle>>

LifecycleNext ==
    \/ StartSession
    \/ StopSession
    \/ SessionOperation

(* ------------------------ DOMExtractor.extract ------------------------ *)
\* A node of the CDP tree below the document root:
\*   kind    button (an element with an interactive tag), div (any other
\*           element), text (a text node)
\*   layout  the node's entry in the DOMSnapshot layout: absent, visible
\*           (displayed, positive size), display_none (styles not visible),
\*           zero_size (bounds of no width or height)
\*   depth   its depth below the root
\* A tree is the sequence of its nodes in document order (parents before
\* children, children in order); a node's position is its nodeId.
NodeKinds == {"button", "div", "text"}
Layouts == {"absent", "visible", "display_none", "zero_size"}
TreeNodes == [kind : NodeKinds, layout : Layouts, depth : 1..MaxVisited]

\* The parent of node i: the nearest earlier node one level up (0: the root).
Parent(tree, i) ==
    IF tree[i].depth = 1 THEN 0
    ELSE CHOOSE j \in 1..(i - 1) :
            /\ tree[j].depth = tree[i].depth - 1
            /\ \A k \in (j + 1)..(i - 1) : tree[k].depth >= tree[i].depth

\* The trees a browser produces: a text node has no children, and nothing
\* inside a node that is not rendered has a layout entry.
WellFormed(tree) ==
    \A i \in 1..Len(tree) :
        /\ tree[i].depth <= (IF i = 1 THEN 1 ELSE tree[i - 1].depth + 1)
        /\ (i > 1 /\ tree[i - 1].kind = "text") => tree[i].depth <= tree[i - 1].depth
        /\ tree[i].kind = "text" => tree[i].layout \in {"absent", "visible"}
        /\ (Parent(tree, i) # 0
              /\ tree[Parent(tree, i)].layout \in {"absent", "display_none"})
           => tree[i].layout = "absent"

RECURSIVE TreesOfSize(_)
TreesOfSize(n) ==
    IF n = 0 THEN {<<>>}
    ELSE {t \in {Append(s, x) : s \in TreesOfSize(n - 1), x \in TreeNodes} :
             WellFormed(t)}

\* The trees of each size.
Trees == [n \in 0..MaxVisited |-> TreesOfSize(n)]

\* "if styles and not styles.is_visible" / "if bounds and (width <= 0 ...)":
\* a node without a layout entry has neither styles nor bounds.
IsVisible(n) == n.layout \notin {"display_none", "zero_size"}

\* DOMNode.is_element, DOMNode.is_interactive
IsElement(n) == n.kind \in {"button", "div"}
IsInteractive(n) == IsElement(n) /\ n.kind = "button"

\* ProcessNodes with the index given to every interactive element, visible
\* or not.
RECURSIVE ProcessNodes_IgnoreVisibility(_, _, _)
ProcessNodes_IgnoreVisibility(tree, i, st) ==
    IF i > Len(tree) THEN st
    ELSE LET n == tree[i]
             indexed == IsElement(n) /\ IsInteractive(n)
             dom_node == [node_id |-> i, kind |-> n.kind, is_visible |-> IsVisible(n),
                          index |-> IF indexed THEN st.interactive_index ELSE 0]
         IN  ProcessNodes_IgnoreVisibility(tree, i + 1,
                 [interactive_index |->
                      IF indexed THEN st.interactive_index + 1 ELSE st.interactive_index,
                  selector_map |->
                      IF indexed THEN (st.interactive_index :> i) @@ st.selector_map
                      ELSE st.selector_map,
                  nodes |-> (i :> dom_node) @@ st.nodes])

\* _process_node for the nodes i.. of the tree, in document order; st holds
\* the extractor's fields.  An index of 0 stands for None.
RECURSIVE ProcessNodes(_, _, _)
ProcessNodes(tree, i, st) ==
    IF i > Len(tree) THEN st
    ELSE LET n == tree[i]
             indexed == IsElement(n) /\ IsInteractive(n) /\ IsVisible(n)
             dom_node == [node_id |-> i, kind |-> n.kind, is_visible |-> IsVisible(n),
                          index |-> IF indexed THEN st.interactive_index ELSE 0]
         IN  ProcessNodes(tree, i + 1,
                 [interactive_index |->
                      IF indexed THEN st.interactive_index + 1 ELSE st.interactive_index,
                  selector_map |->
                      IF indexed THEN (st.interactive_index :> i) @@ st.selector_map
                      ELSE st.selector_map,
                  nodes |-> (i :> dom_node) @@ st.nodes])

ExtractorInit ==
    /\ interactive_index = 1
    /\ selector_map = <<>>
    /\ nodes = <<>>
    /\ dom_tree = <<>>
    /\ visited = 0
    /\ extracted = NoneVal
    /\ failed_sources = {}

\* The three raw sources of extract(): DOMSnapshot.captureSnapshot,
\* Accessibility.getFullAXTree and DOM.getDocument.  A call that raises is
\* logged and replaced by an empty result.
Sources == {"snapshot", "accessibility", "dom"}

\* extract(): the three CDP calls, then the walk of the tree.
\*   failed          the sources whose CDP call raised; without the
\*                   snapshot no node has layout data
\*   got_root        DOM.getDocument succeeded (else the tree is {})
\*   pointer_events  the snapshot reports a pointer-events style for the
\*                   nodes it lays out; ComputedStyles takes no keyword of
\*                   that name, so building the lookup raises TypeError
Extract ==
    /\ visited < MaxVisited
    /\ \E size \in 0..(MaxVisited - visited) :
       \E tree \in Trees[size] :
       \E failed \in SUBSET Sources :
       \E pointer_events \in BOOLEAN :
       LET got_root == "dom" \notin failed
       IN /\ ~got_root => size = 0
          /\ "snapshot" \in failed =>
                /\ ~pointer_events
                /\ \A i \in 1..Len(tree) : tree[i].layout = "absent"
          /\ failed_sources' = failed
          /\ dom_tree' = tree
          /\ visited' = visited + size
          /\ IF ~got_root
             THEN /\ extracted' = "returned"
                  /\ UNCHANGED <<interactive_index, selector_map, nodes>>
             ELSE IF pointer_events /\ \E i \in 1..Len(tree) : tree[i].layout # "absent"
             THEN /\ extracted' = "TypeError"
                  /\ UNCHANGED <<interactive_index, selector_map, nodes>>
             ELSE LET st == ProcessNodes(tree, 1,
                                [interactive_index |-> interactive_index,
                                 selector_map |-> selector_map,
                                 nodes |-> nodes])
                  IN  /\ interactive_index' = st.interactive_index
                      /\ selector_map' = st.selector_map
                      /\ nodes' = st.nodes
                      /\ extracted' = "returned"
    /\ UNCHANGED notExtractor

\* The interactive_elements of the DOMState extract() returns.
InteractiveElements == {nodes[id].index : id \in DOMAIN nodes} \ {0}

\* A DOMExtractor on which extract() is never called.
ExtractorIdle == ExtractorInit

(* ------------------------ DOMSerializer.serialize --------------------- *)
\* A text is represented by its length in characters.
\* The lengths of the lines _serialize_element produces: "[1]<a></a>" is
\* the shortest, a line with an attribute and a text is longer.
ElementLines == {10, 25}

\* What the serializer is given: the lines of the visible interactive
\* elements, whether there is content above and below the viewport, and
\* max_length.
SerializerInputs ==
    [elements : SeqsUpTo(ElementLines, MaxElements),
     has_content_above : BOOLEAN, has_content_below : BOOLEAN,
     max_length : 0..MaxLength]

\* "lines": the start marker ("... 0.5 pages above ..." or "[Start of
\* page]"), the element lines, the end marker "[End of page]".
Lines(in) ==
    <<IF in.has_content_above THEN 23 ELSE 15>> \o in.elements
        \o (IF in.has_content_below THEN <<>> ELSE <<13>>)

\* len("\n".join(lines))
RECURSIVE JoinedLength(_)
JoinedLength(lines) ==
    IF lines = <<>> THEN 0
    ELSE IF Len(lines) = 1 THEN lines[1]
    ELSE lines[1] + 1 + JoinedLength(Tail(lines))

\* representation[:max_length]
Truncate(n, max_length) == IF n > max_length THEN max_length ELSE n

\* The SerializedDOM serialize() returns; the local "truncated" is computed
\* and not passed on, and SerializedDOM has no such field.
Serialize(in) ==
    [llm_representation |-> Truncate(JoinedLength(Lines(in)), in.max_length),
     interactive_elements |-> Len(in.elements),
     has_content_above |-> in.has_content_above,
     has_content_below |-> in.has_content_below]

\* SerializedDOM()
EmptySerialized ==
    [llm_representation |-> 0, interactive_elements |-> 0,
     has_content_above |-> FALSE, has_content_below |-> FALSE]

\* The length of serialize_dom_for_llm's text with no tab information: the
\* page_stats line (65 for one-digit counts), the page_info line with the
\* newline before it (56), "\nInteractive elements:" (22), the
\* representation, joined by three newlines.
LLMTextLength(in) == 65 + 1 + 56 + 1 + 22 + 1 + Serialize(in).llm_representation

SerializerInit ==
    /\ ser_pc = "pending"
    /\ ser_input \in SerializerInputs
    /\ serialized = EmptySerialized
    /\ llm_text = 0

\* No serializer call.
SerializerIdle ==
    /\ ser_pc = "idle"
    /\ ser_input = [elements |-> <<>>, has_content_above |-> FALSE,
                    has_content_below |-> FALSE, max_length |-> MaxLength]
    /\ serialized = EmptySerialized
    /\ llm_text = 0

\* DOMSerializer(dom_state, max_length).serialize()
SerializerCall ==
    /\ ser_pc = "pending"
    /\ ser_pc' = "serialize"
    /\ serialized' = Serialize(ser_input)
    /\ UNCHANGED <<ser_input, llm_text, notSerializer>>

\* serialize_dom_for_llm(dom_state, max_length=max_length)
SerializeForLLM ==
    /\ ser_pc = "pending"
    /\ ser_pc' = "serialize_dom_for_llm"
    /\ serialized' = Serialize(ser_input)
    /\ llm_text' = LLMTextLength(ser_input)
    /\ UNCHANGED <<ser_input, notSerializer>>

SerializerNext == SerializerCall \/ SerializeForLLM

(* ------------------- DOMSerializer's statistics ----------------------- *)
\* A node dict of dom_state.nodes, as far as _calculate_stats reads it: its
\* tag, its visibility, and whether it has an index (given to visible
\* nodes only).
TableTags == {"a", "iframe", "div"}
TableNodes ==
    {n \in [tag_name : TableTags, is_visible : BOOLEAN, indexed : BOOLEAN] :
        n.indexed => n.is_visible}

\* self.stats as __init__ leaves it.
ZeroStats ==
    [total_elements |-> 0, interactive_elements |-> 0, visible_elements |-> 0,
     links_count |-> 0, iframes_count |-> 0, scroll_containers |-> 0]

\* DOMSerializer(dom_state): the statistics are zeroed here, and only here.
StatsInit ==
    /\ node_table \in SeqsUpTo(TableNodes, MaxTableNodes)
    /\ stats = ZeroStats
    /\ serialize_returns = <<>>

\* No serializer whose statistics are followed.
StatsIdle ==
    /\ node_table = <<>>
    /\ stats = ZeroStats
    /\ serialize_returns = <<>>

\* _calculate_stats: every node adds to the counts self.stats holds.
RECURSIVE calculate_stats(_, _)
calculate_stats(st, table) ==
    IF table = <<>> THEN st
    ELSE LET n == Head(table)
         IN  calculate_stats(
                 [st EXCEPT
                    !.total_elements = @ + 1,
                    !.visible_elements = IF n.is_visible THEN @ + 1 ELSE @,
                    !.interactive_elements = IF n.indexed THEN @ + 1 ELSE @,
                    !.links_count = IF n.tag_name = "a" THEN @ + 1 ELSE @,
                    !.iframes_count = IF n.tag_name = "iframe" THEN @ + 1 ELSE @],
                 Tail(table))

\* The SerializedDOM of one serialize() call: the number of element lines
\* of its text (one per visible indexed node) and the counts read from
\* self.stats after _calculate_stats.
SerializedStats(st, table) ==
    [element_lines |->
         Cardinality({i \in 1..Len(table) : table[i].indexed /\ table[i].is_visible}),
     total_elements |-> st.total_elements,
     interactive_elements |-> st.interactive_elements,
     visible_elements |-> st.visible_elements,
     links_count |-> st.links_count,
     iframes_count |-> st.iframes_count,
     scroll_containers |-> st.scroll_containers]

\* serialize() on the serializer, once more.
SerializeOnce ==
    /\ Len(serialize_returns) < MaxSerializeCalls
    /\ stats' = calculate_stats(stats, node_table)
    /\ serialize_returns' =
           Append(serialize_returns, SerializedStats(stats', node_table))
    /\ UNCHANGED <<node_table, agentVars, tutorialVars, constructVars, sessionVars,
                   extractorVars, serializerVars, promptVars, viewVars,
                   lifecycleVars>>

(* --------------- AgentHistoryList.get_history_description ------------- *)
\* AgentHistory.get_summary() of entry i of h: the actions are listed only
\* for an entry with a model output.
Summary(h, i) ==
    [entry |-> i,
     actions |-> IF h[i].model_output # NoneVal THEN h[i].results ELSE <<>>]

\* get_history_description with the items taken from the front of the list.
get_history_description_Oldest(h, max_items) ==
    LET n == Len(h)
        count == IF max_items # 0 /\ max_items < n THEN max_items ELSE n
    IN  [max_items |-> max_items,
         items |-> [j \in 1..count |-> Summary(h, j)]]

\* get_history_description(max_items): "if max_items: items =
\* items[-max_items:]", then one block per item.  max_items = 0 stands for
\* None as well: both are falsy.
get_history_description(h, max_items) ==
    LET n == Len(h)
        count == IF max_items # 0 /\ max_items < n THEN max_items ELSE n
    IN  [max_items |-> max_items,
         items |-> [j \in 1..count |-> Summary(h, n - count + j)]]

\* A caller renders the history: build_step_message with the compact
\* manager's limit, or get_history_description with a limit of its own.
DescribeHistory ==
    /\ \E max_items \in (0..MaxItems) \cup {DefaultHistoryItems} :
          history_description' = get_history_description(history, max_items)
    /\ UNCHANGED <<agentVars, tutorialVars, constructVars, sessionVars,
                   extractorVars, serializerVars, viewVars, lifecycleVars, statsVars>>

\* No description has been rendered.
PromptIdle == history_description = [max_items |-> 0, items |-> <<>>]

(* ------------------- functions of the DOM views ----------------------- *)
\* What the functions below leave alone.
notView ==
    <<agentVars, tutorialVars, constructVars, sessionVars, extractorVars,
      serializerVars, promptVars, lifecycleVars, statsVars>>

\* None of the functions is under check.
ViewIdle == fn = "idle" /\ fn_args = <<>> /\ fn_result = <<>>

\* The function under check returns (or raises).
Return(result) ==
    /\ fn_result' = result
    /\ UNCHANGED <<fn, fn_args, notView>>

\* The "bounds" of a node dict: <<>> is None (a node the layout snapshot
\* does not hold), <<x, y>> the dict _node_to_dict builds.
BoundsValues == {<<>>} \cup ((0..MaxCoordinate) \X (0..MaxCoordinate))

\* DOMState.interactive_elements in the order of its values(): the indexed
\* nodes in document order, each the dict of _node_to_dict.  An index is
\* given to visible nodes only, so all of them pass the is_visible filter.
InteractiveDicts ==
    UNION {[1..n -> BoundsValues] : n \in 0..MaxSortedElements}

ElementDicts(bs) == [i \in 1..Len(bs) |-> [index |-> i, bounds |-> bs[i]]]

\* sort_key: bounds = e.get("bounds", {}); (bounds.get("y", 0),
\* bounds.get("x", 0)).  The key "bounds" is always there, so the default
\* is never taken, and None has no get.
SortKeyRaises(e) == e.bounds = <<>>

\* The order of two keys (y, x), for elements that have bounds.
KeyLess(a, b) ==
    \/ a.bounds[2] < b.bounds[2]
    \/ a.bounds[2] = b.bounds[2] /\ a.bounds[1] < b.bounds[1]

\* sorted() is stable: an element goes behind those whose key is not greater.
RECURSIVE InsertSorted(_, _)
InsertSorted(e, s) ==
    IF s = <<>> THEN <<e>>
    ELSE IF KeyLess(e, s[Len(s)])
         THEN Append(InsertSorted(e, SubSeq(s, 1, Len(s) - 1)), s[Len(s)])
         ELSE Append(s, e)

RECURSIVE SortedFrom(_, _)
SortedFrom(es, done) ==
    IF es = <<>> THEN done
    ELSE SortedFrom(Tail(es), InsertSorted(Head(es), done))

\* _get_sorted_elements followed by the loop of serialize() that appends
\* the line of each element: a line "[index]<tag ...>" is represented by
\* its index.
SerializedLines(es) ==
    IF \E i \in 1..Len(es) : SortKeyRaises(es[i])
    THEN [raised |-> "AttributeError", lines |-> <<>>]
    ELSE LET sorted == SortedFrom(es, <<>>)
         IN  [raised |-> NoneVal,
              lines |-> [i \in 1..Len(sorted) |-> sorted[i].index]]

SortInit ==
    /\ fn = "_get_sorted_elements"
    /\ fn_args \in {ElementDicts(bs) : bs \in InteractiveDicts}
    /\ fn_result = <<>>

SortElements ==
    /\ fn = "_get_sorted_elements"
    /\ fn_result = <<>>
    /\ Return(SerializedLines(fn_args))

\* The scroll offsets and viewport heights of the DOM states serialized:
\* the top, the offsets on both sides of a tenth of 720, a page further
\* down; a viewport of height 0 takes the "else 0" branches.
ScrollOffsets == {0, 72, 73, 800}
ViewportHeights == {0, 720}

\* The "bounds" of the nodes as far as the page height goes: <<>> is None,
\* <<y, height>> a dict.
NodeExtents == {<<>>} \cup ({0, 1000} \X {100, 1000})

PagingInputs ==
    [scroll_y : ScrollOffsets, viewport_height : ViewportHeights,
     nodes : UNION {[1..n -> NodeExtents] : n \in 0..MaxPageNodes}]

\* The loop of _get_page_height: max_y = max(max_y, y + height) over the
\* nodes that have bounds.
RECURSIVE PageHeightFrom(_, _)
PageHeightFrom(ns, max_y) ==
    IF ns = <<>> THEN max_y
    ELSE LET b == Head(ns)
         IN  PageHeightFrom(Tail(ns),
                IF b # <<>> /\ b[1] + b[2] > max_y THEN b[1] + b[2] ELSE max_y)

\* _get_page_height with max_y starting at 0.
get_page_height_FromZero(in) == PageHeightFrom(in.nodes, 0)

\* _get_page_height: max_y starts at the viewport height.
get_page_height(in) == PageHeightFrom(in.nodes, in.viewport_height)

\* A quotient a / b is kept as <<a, b>>; "q > 0.1" is 10 * a > b for b > 0.
ExceedsTenth(q) == 10 * q[1] > q[2]

\* The paging part of serialize(): pages_above, pages_below and the flags.
Paging(in) ==
    LET vh == in.viewport_height
        page_height == get_page_height(in)
        pages_above == IF vh > 0 THEN <<in.scroll_y, vh>> ELSE <<0, 1>>
        below == page_height - in.scroll_y - vh
        pages_below == IF vh > 0 /\ below > 0 THEN <<below, vh>> ELSE <<0, 1>>
    IN  [page_height |-> page_height,
         pages_above |-> pages_above,
         pages_below |-> pages_below,
         has_content_above |-> ExceedsTenth(pages_above),
         has_content_below |-> ExceedsTenth(pages_below)]

PagingInit ==
    /\ fn = "serialize"
    /\ fn_args \in PagingInputs
    /\ fn_result = <<>>

SerializePaging ==
    /\ fn = "serialize"
    /\ fn_result = <<>>
    /\ Return(Paging(fn_args))

\* The nodes is_interactive is asked about, as _process_node builds them:
\* an attribute is NoneVal when the node does not have it, ax_role is the
\* role of the node's accessibility-tree entry (NoneVal without one).  A
\* text node has no attributes.
NodeTypes == {"ELEMENT_NODE", "TEXT_NODE"}
TagNames == {"button", "div", "#text"}
RoleValues == {NoneVal, "button", "slider", "banner"}
OnclickValues == {NoneVal, "", "go()"}
TabindexValues == {NoneVal, "0"}
ContentEditableValues == {NoneVal, "true", "false"}

DOMNodes ==
    {n \in [node_type : NodeTypes, tag_name : TagNames, role : RoleValues,
            ax_role : RoleValues, onclick : OnclickValues,
            tabindex : TabindexValues, contenteditable : ContentEditableValues] :
        IF n.node_type = "TEXT_NODE"
        THEN /\ n.tag_name = "#text"
             /\ n.role = NoneVal /\ n.onclick = NoneVal
             /\ n.tabindex = NoneVal /\ n.contenteditable = NoneVal
        ELSE n.tag_name # "#text"}

\* interactive_tags of DOMNode.is_interactive
InteractiveTags ==
    {"a", "button", "input", "select", "textarea", "label", "details",
     "summary", "dialog"}

\* The roles DOMNode.is_interactive accepts in the role attribute.
InteractiveRoleAttributes ==
    {"button", "link", "menuitem", "option", "tab", "checkbox", "radio",
     "textbox", "combobox"}

\* AccessibilityInfo.is_interactive_role
is_interactive_role(role) ==
    IF Truthy(role)
    THEN role \in {"button", "link", "menuitem", "option", "tab", "checkbox",
                   "radio", "textbox", "combobox", "listbox", "slider",
                   "spinbutton", "searchbox", "switch", "gridcell", "treeitem"}
    ELSE FALSE

\* DOMNode.is_interactive: the accessibility entry is not looked at.
is_interactive(n) ==
    IF n.node_type # "ELEMENT_NODE" THEN FALSE
    ELSE IF n.tag_name \in InteractiveTags THEN TRUE
    ELSE IF Truthy(n.onclick) THEN TRUE
    ELSE IF Truthy(n.tabindex) THEN TRUE
    ELSE IF n.contenteditable = "true" THEN TRUE
    ELSE n.role \in InteractiveRoleAttributes

InteractiveInit ==
    /\ fn = "is_interactive"
    /\ fn_args \in DOMNodes
    /\ fn_result = <<>>

IsInteractiveCall ==
    /\ fn = "is_interactive"
    /\ fn_result = <<>>
    /\ Return([value |-> is_interactive(fn_args)])

(* --------------------------- specifications --------------------------- *)
\* An Agent on which run() is never called.
AgentIdle ==
    /\ pc = "idle"
    /\ max_steps = MaxSteps
    /\ max_actions_per_step = DefaultMaxActionsPerStep
    /\ n_steps = 0
    /\ consecutive_failures = 0
    /\ is_done = FALSE
    /\ is_paused = FALSE
    /\ is_stopped = FALSE
    /\ success = NoneVal
    /\ history = <<>>
    /\ todo = <<>>
    /\ results = <<>>
    /\ llm_out = NoneVal
    /\ cached = FALSE
    /\ handler_ran = FALSE
    /\ dirty = FALSE
    /\ outcome = NoneVal

\* A TutorialAgent on which run() is never called.
TutorialIdle ==
    /\ t_pc = "idle"
    /\ t_n_steps = 0
    /\ t_failures = 0
    /\ t_is_done = FALSE
    /\ t_success = NoneVal
    /\ recent_actions = <<>>
    /\ t_todo = <<>>
    /\ t_results = <<>>
    /\ t_outcome = NoneVal
    /\ t_calls = <<>>
    /\ cycle = <<>>
    /\ cycle_pos = 0
    /\ t_is_stopped = FALSE

\* No library operation is under way.
LibraryIdle ==
    ConstructIdle /\ SessionIdle /\ ExtractorIdle /\ SerializerIdle
    /\ PromptIdle /\ LifecycleIdle /\ StatsIdle
    /\ ViewIdle

Init == AgentInit /\ TutorialIdle /\ LibraryIdle

\* Agent.run with its control calls.
Spec == Init /\ [][AgentNext]_vars

\* The steps run() and its caller take by themselves: the call of run(),
\* and every await of run() returning (each step terminates).
AgentProgress ==
    \/ Run
    \/ LoopHead
    \/ PauseWait
    \/ StepGetState
    \/ StepLLM
    \/ StepExecute
    \/ StepRefresh
    \/ ForceCompletion

\* The poll of the pause loop that finds the flag cleared.
PauseEnds == PauseWait /\ ~is_paused

\* Agent.run under the event loop's scheduling: a coroutine that can go on
\* does go on, and the pause loop, which polls every 0.1 s, sees a cleared
\* flag if the flag is cleared again and again.  pause(), resume() and
\* stop() are the caller's and happen or not.
FairSpec ==
    /\ Init
    /\ [][AgentNext]_vars
    /\ WF_vars(AgentProgress)
    /\ SF_vars(PauseEnds)

TutorialNext ==
    \/ TutorialLoopHead
    \/ TutorialStepLLM
    \/ TutorialAction

TutorialOnly == AgentIdle /\ TutorialInit /\ LibraryIdle

\* TutorialAgent.run's loop.
TutorialSpec == TutorialOnly /\ [][TutorialNext]_vars

TutorialRerunOnly == AgentIdle /\ TutorialRerunInit /\ LibraryIdle

\* TutorialAgent.run's loop, run again on an agent that kept its window.
TutorialRerunSpec == TutorialRerunOnly /\ [][TutorialNext]_vars

TutorialStopNext ==
    \/ TutorialLoopHead
    \/ TutorialStepLLM
    \/ TutorialAction
    \/ TutorialStop

\* TutorialAgent.run's loop with a caller that may request a stop.
TutorialStopSpec == TutorialOnly /\ [][TutorialStopNext]_vars

TutorialCycleOnly == AgentIdle /\ TutorialCycleInit /\ LibraryIdle

\* TutorialAgent.run's loop with an oracle that repeats a cycle.
TutorialCycleSpec == TutorialCycleOnly /\ [][TutorialNext]_vars

ConstructOnly ==
    /\ AgentIdle /\ TutorialIdle
    /\ ConstructInit /\ SessionIdle /\ ExtractorIdle /\ SerializerIdle
    /\ PromptIdle /\ LifecycleIdle /\ StatsIdle
    /\ ViewIdle

\* One construction of an ActionResult from arbitrary arguments.
ConstructSpec == ConstructOnly /\ [][Construct]_vars

SessionOnly ==
    /\ AgentIdle /\ TutorialIdle
    /\ ConstructIdle /\ SessionInit /\ ExtractorIdle /\ SerializerIdle
    /\ PromptIdle /\ LifecycleIdle /\ StatsIdle
    /\ ViewIdle

\* The get_state calls of one BrowserSession.
SessionSpec == SessionOnly /\ [][GetState]_vars

ExtractorOnly ==
    /\ AgentIdle /\ TutorialIdle
    /\ ConstructIdle /\ SessionIdle /\ ExtractorInit /\ SerializerIdle
    /\ PromptIdle /\ LifecycleIdle /\ StatsIdle
    /\ ViewIdle

\* The extract() calls on one DOMExtractor.
ExtractorSpec == ExtractorOnly /\ [][Extract]_vars

SerializerOnly ==
    /\ AgentIdle /\ TutorialIdle
    /\ ConstructIdle /\ SessionIdle /\ ExtractorIdle /\ SerializerInit
    /\ PromptIdle /\ LifecycleIdle /\ StatsIdle
    /\ ViewIdle

\* One call of the serializer on an arbitrary DOM state.
SerializerSpec == SerializerOnly /\ [][SerializerNext]_vars

\* Agent.run without control calls, and a caller that renders the history
\* at any suspension point.
HistoryNext ==
    \/ Run
    \/ LoopHead
    \/ StepGetState
    \/ StepLLM
    \/ StepExecute
    \/ StepRefresh
    \/ ForceCompletion
    \/ DescribeHistory

HistorySpec == Init /\ [][HistoryNext]_vars

SortOnly ==
    /\ AgentIdle /\ TutorialIdle
    /\ ConstructIdle /\ SessionIdle /\ ExtractorIdle /\ SerializerIdle
    /\ PromptIdle /\ LifecycleIdle /\ StatsIdle
    /\ SortInit

LifecycleOnly ==
    /\ AgentIdle /\ TutorialIdle
    /\ ConstructIdle /\ SessionIdle /\ ExtractorIdle /\ SerializerIdle
    /\ PromptIdle /\ ViewIdle /\ LifecycleInit /\ StatsIdle

\* The start, stop and operation calls on one BrowserSession.
LifecycleSpec == LifecycleOnly /\ [][LifecycleNext]_vars

StatsOnly ==
    /\ AgentIdle /\ TutorialIdle
    /\ ConstructIdle /\ SessionIdle /\ ExtractorIdle /\ SerializerIdle
    /\ PromptIdle /\ ViewIdle /\ LifecycleIdle /\ StatsInit

\* The serialize() calls on one DOMSerializer.
StatsSpec == StatsOnly /\ [][SerializeOnce]_vars

InteractiveOnly ==
    /\ AgentIdle /\ TutorialIdle
    /\ ConstructIdle /\ SessionIdle /\ ExtractorIdle /\ SerializerIdle
    /\ PromptIdle /\ LifecycleIdle /\ StatsIdle
    /\ InteractiveInit

\* One evaluation of DOMNode.is_interactive on an arbitrary node.
InteractiveSpec == InteractiveOnly /\ [][IsInteractiveCall]_vars

PagingOnly ==
    /\ AgentIdle /\ TutorialIdle
    /\ ConstructIdle /\ SessionIdle /\ ExtractorIdle /\ SerializerIdle
    /\ PromptIdle /\ LifecycleIdle /\ StatsIdle
    /\ PagingInit

\* One call of serialize() as far as the paging indicators go.
PagingSpec == PagingOnly /\ [][SerializePaging]_vars

\* One call of serialize() on an arbitrary set of indexed elements.
SortSpec == SortOnly /\ [][SortElements]_vars

(* ======================= properties of Agent.run ====================== *)
\* A transition in which run() starts a step (enters _execute_step).
StepBegins == pc \notin InStep /\ pc' = "get_state"

\* A transition in which a step ends by being recorded in the history.
StepRecorded == pc \in InStep /\ Len(history') = Len(history) + 1

\* The results of the history entries before entry i, in order.
RECURSIVE ResultsBefore(_, _)
ResultsBefore(h, i) ==
    IF i <= 1 THEN <<>> ELSE ResultsBefore(h, i - 1) \o h[i - 1].results

\* The extracted contents (truthy ones) a list of results carries.
Contents(res) ==
    {res[k].extracted_content : k \in {j \in 1..Len(res) : Truthy(res[j].extracted_content)}}

\* Entry i of the history is a step's record holding an is_done result.
DoneStep(i) == history[i].model_output # NoneVal /\ FirstDone(history[i].results) # 0

\* Entry i of the history is the record _force_completion synthesizes.
ForcedEntry(i) == history[i].model_output = NoneVal

\* C1: once stop() has been requested (state.is_stopped is set), run()
\* begins no further step, whatever pause()/resume() calls surround it.
C1_NoStepAfterStop == [][is_stopped => ~StepBegins]_vars

\* C2: when consecutive_failures reaches max_failures the run is over, with
\* MaxFailuresReachedError raised and the state Done(false): is_done true,
\* success false.
C2_MaxFailuresIsDoneFalse ==
    consecutive_failures >= max_failures =>
        /\ pc = "ended"
        /\ outcome = "MaxFailuresReachedError"
        /\ is_done
        /\ success = "false"

\* C3: an oracle response with an empty action list or a malformed structure
\* is a parse failure: the counter goes up by exactly one, nothing is
\* executed or recorded, and the loop goes on while the counter is below
\* max_failures.
MalformedResponses == ParseFailures \cup {"non_dict_actions"}

C3_MalformedIsParseFailure ==
    [][(pc = "llm" /\ pc' # "llm" /\ llm_out' \in MalformedResponses) =>
          /\ consecutive_failures' = consecutive_failures + 1
          /\ history' = history
          /\ pc' # "execute"
          /\ (consecutive_failures' < max_failures =>
                 pc' = "loop" /\ n_steps' = n_steps + 1)]_vars

\* C4: a step one of whose action results carries an error increments the
\* consecutive-failure counter by one.
C4_ActionErrorCounts ==
    [][(StepRecorded /\ ~NoError(history'[Len(history')].results)) =>
          consecutive_failures' = consecutive_failures + 1]_vars

\* C5: a run that reaches max_steps with no is_done result from any step
\* does not raise: it returns with a synthesized last entry (is_done,
\* success false, non-empty extracted content) and the state Done(false).
C5_MaxStepsForcesDoneFalse ==
    (pc = "ended" /\ n_steps >= max_steps
        /\ \A i \in 1..Len(history) : ~DoneStep(i)) =>
        /\ outcome = "returned"
        /\ is_done /\ success = "false"
        /\ history # <<>>
        /\ ForcedEntry(Len(history))
        /\ LET r == history[Len(history)].results[1]
           IN  r.is_done /\ r.success = "false" /\ Truthy(r.extracted_content)

\* C6: the synthesized result carries the fallback text only if no earlier
\* result of the history has extracted content; when one has, the content is
\* taken from the history.
C6_ForcedContentFromHistory ==
    \A i \in 1..Len(history) :
        ForcedEntry(i) =>
            LET prior == Contents(ResultsBefore(history, i))
                c == history[i].results[1].extracted_content
            IN  IF prior = {} THEN c = FallbackText ELSE c \in prior

\* C8: a step whose results include an is_done result leaves the agent Done
\* with state.success that result's success, and no step follows it.
C8_DoneResultEndsRun ==
    \A i \in 1..Len(history) :
        DoneStep(i) =>
            /\ is_done
            /\ success = history[i].results[FirstDone(history[i].results)].success
            /\ i = Len(history)
            /\ pc \in {"loop", "ended"}

\* C8's case: a run of two recorded steps that a done action ended.
C8_Witness ==
    /\ pc = "ended"
    /\ Len(history) = 2
    /\ DoneStep(2)
    /\ success = "true"

\* C9: no step begins while the pause flag is set; the pause wait is left
\* only into the next step; a step in flight never goes to the pause wait,
\* and its next action stays enabled with the flag set.
C9_PausePolledAtBoundary ==
    /\ [][/\ StepBegins => ~is_paused
          /\ (pc = "sleep" /\ pc' # "sleep") => StepBegins
          /\ pc \in InStep => pc' # "sleep"]_vars
    /\ []((pc = "execute" /\ is_paused) => ENABLED StepExecute)
    /\ []((pc = "sleep" /\ ~is_paused) => ENABLED PauseWait)

\* C9's case: the flag was set while a step was between two of its actions.
C9_Witness == pc = "execute" /\ is_paused /\ Len(results) = 1

\* C10: run() ends by returning the history or by raising
\* MaxFailuresReachedError, and in no other way.
C10_OnlyBudgetExhaustionRaises ==
    pc = "ended" => outcome \in {"returned", "MaxFailuresReachedError"}

(* =================== properties of TutorialAgent.run ================== *)
\* The last four tracked (executed) signatures are all sig.
LastFour(sig) ==
    /\ Len(recent_actions) >= 4
    /\ \A i \in (Len(recent_actions) - 3)..Len(recent_actions) : recent_actions[i] = sig

Rejected == {"unknown", "invalid", "non_dict"}

\* C11: an action with an unregistered name or with parameters that fail the
\* schema never reaches a handler; the step is recorded with an error result
\* for it as its last result, the remaining actions are skipped, and the step
\* does not raise (the failure counter is not incremented by it).
C11_RejectedNeverReachesHandler ==
    [][(pc = "execute" /\ pc' # pc /\ Head(todo) \in Rejected) =>
          /\ ~handler_ran'
          /\ StepRecorded
          /\ LET res == history'[Len(history')].results
             IN  /\ Len(res) = Len(results) + 1
                 /\ Truthy(res[Len(res)].error)
          /\ pc' = "loop"
          /\ consecutive_failures' <= consecutive_failures]_vars

\* The done actions, and the success parameter each carries.
DoneActions == {"done_true", "done_false"}
DoneParam(a) == IF a = "done_true" THEN "true" ELSE "false"

\* The result the transition out of tools.execute has just appended.
NewResult ==
    IF StepRecorded THEN history'[Len(history')].results[Len(results) + 1]
    ELSE results'[Len(results')]

\* C13: a result returned by executing an action has is_done exactly when
\* the action is done; when the done handler has run the state is is_done
\* with success the action's success parameter, and stays so to the end of
\* the run.
C13_OnlyDoneCompletes ==
    [][/\ (pc = "execute" /\ pc' # pc) =>
             /\ NewResult.is_done <=> Head(todo) \in DoneActions
             /\ Head(todo) \in DoneActions =>
                   /\ handler_ran'
                   /\ is_done'
                   /\ success' = DoneParam(Head(todo))
                   /\ pc' = "loop"
       /\ is_done => (is_done' /\ success' = success /\ pc' \in {"loop", "ended"})]_vars

\* C13's case: a run that ended after a step whose second action was
\* done(success=false).
C13_Witness ==
    /\ pc = "ended"
    /\ outcome = "returned"
    /\ handler_ran
    /\ history # <<>>
    /\ Len(history[Len(history)].results) = 2
    /\ history[Len(history)].results[2].is_done
    /\ is_done
    /\ success = "false"

\* A result that ends the execution of a step's actions.
EndsActions(r) == r.error # NoneVal \/ r.is_done

\* At most one result of the list ends the execution, and it is the last.
EndsOnlyLast(res) == \A j \in 1..Len(res) : EndsActions(res[j]) => j = Len(res)

\* s is what is left of t after some of its front was taken away.
IsSuffix(s, t) ==
    /\ Len(s) <= Len(t)
    /\ s = SubSeq(t, Len(t) - Len(s) + 1, Len(t))

\* C21: within one step the actions are executed in the order given, no more
\* than max_actions_per_step of them, and the execution stops at the first
\* result with an error or is_done: in a step's result list at most one
\* result has an error or is_done, and it is the last one.
C21_StopsAtFirstErrorOrDone ==
    /\ [](/\ \A i \in 1..Len(history) : EndsOnlyLast(history[i].results)
          /\ pc \in {"execute", "refresh"} =>
                /\ todo # <<>>
                /\ \A j \in 1..Len(results) : ~EndsActions(results[j])
                /\ Len(results) + Len(todo)
                      <= max_actions_per_step + (IF pc = "refresh" THEN 1 ELSE 0))
    /\ [][/\ (pc \in {"execute", "refresh"} /\ pc' \in {"execute", "refresh"}) =>
                IsSuffix(todo', todo)
          /\ (pc = "execute" /\ pc' = "refresh") =>
                /\ results' = Append(results, results'[Len(results')])
                /\ results'[Len(results')] \in
                      {o.result : o \in Outcomes(Head(todo))}
          /\ (pc = "refresh" /\ pc' = "execute") =>
                /\ Len(todo') < Len(todo)
                /\ results' = results]_vars

\* C21's case: a recorded step of two results under the default bound of
\* four, the first a plain result and the second an error.
C21_Witness ==
    /\ max_actions_per_step = DefaultMaxActionsPerStep
    /\ \E i \in 1..Len(history) :
          /\ Len(history[i].results) = 2
          /\ ~EndsActions(history[i].results[1])
          /\ history[i].results[2].error # NoneVal

\* The latest pass of TutorialAgent's action loop handed its action to
\* tools.execute.
Executed(calls) == \E i \in 1..Len(calls) : calls[i] = "execute"

\* C22: between two consecutively executed actions of one step of which the
\* first is not passive (anything but wait and screenshot), the browser
\* state and the selector map are refreshed before the second runs, also
\* when the first ended with a navigation-related exception that
\* TutorialAgent takes as recoverable.
C22_RefreshedBetweenActions ==
    [][(/\ t_pc = "act"
        /\ Executed(t_calls)
        /\ recent_actions[Len(recent_actions)] \notin PassiveActions
        /\ Executed(t_calls')) =>
           t_calls[Len(t_calls)] = "get_state"]_vars

\* C23: every step begins with a forced fresh extraction: the state the
\* oracle is shown in step k was fetched from the driver after every action
\* of step k-1 had finished, and no cached state reaches an oracle decision.
C23_OracleSeesFreshState ==
    /\ [](pc = "llm" => (cached /\ ~dirty))
    /\ [][/\ (pc' = "llm" /\ pc # "llm") => (pc = "get_state" /\ ~dirty')
          /\ (pc = "llm" /\ pc' # "llm") => ~dirty]_vars

\* C23's case: the oracle is asked in a second step, after a step whose
\* action ran its handler and ended the action loop with no refresh.
C23_Witness ==
    /\ pc = "llm"
    /\ Len(history) = 1
    /\ Len(history[1].results) = 1
    /\ Truthy(history[1].results[1].error)
    /\ handler_ran

\* A transition in which a step ends, recorded or raised.
StepEnds == pc \in InStep /\ pc' \notin InStep

\* The step that ends completed, and none of its results carries an error.
CleanStep ==
    /\ StepRecorded
    /\ \A j \in 1..Len(history'[Len(history')].results) :
          history'[Len(history')].results[j].error = NoneVal

\* C24: the consecutive-failure counter is reset to zero at the end of a
\* step exactly when the step completed and none of its action results
\* carried an error; a step with an erroring action or a raised exception
\* never resets it, and nothing but the end of a step changes it.
C24_ResetIffCleanStep ==
    [][/\ StepEnds =>
             IF CleanStep
             THEN consecutive_failures' = 0
             ELSE /\ consecutive_failures' >= consecutive_failures
                  /\ consecutive_failures > 0 => consecutive_failures' > 0
       /\ ~StepEnds => consecutive_failures' = consecutive_failures]_vars

\* C24's case: a first step that raised, then a clean step that reset the
\* counter.
C24_Witness ==
    /\ pc = "loop"
    /\ n_steps = 2
    /\ Len(history) = 1
    /\ \A j \in 1..Len(history[1].results) : history[1].results[j].error = NoneVal
    /\ consecutive_failures = 0

\* The number of step records in a history (the entries _execute_step
\* added, which hold the oracle's output).
StepRecords(h) == Cardinality({i \in 1..Len(h) : h[i].model_output # NoneVal})

\* C25: the history holds one record per loop iteration: after any prefix
\* of Agent.run the number of step records equals state.n_steps, also for
\* iterations whose oracle response failed to parse.
C25_OneRecordPerIteration ==
    pc \notin InStep => StepRecords(history) = n_steps

LastN(s, n) == SubSeq(s, IF Len(s) > n THEN Len(s) - n + 1 ELSE 1, Len(s))

\* C27: the window is a FIFO of at most the last 10 executed action
\* signatures across steps: it never holds more than 10, every executed
\* action puts its signature at the end and pushes out the oldest entry of
\* a full window, and nothing else changes it.
C27_WindowIsLastTen ==
    /\ [](Len(recent_actions) <= RecentWindow)
    /\ [][IF t_pc = "act" /\ Executed(t_calls')
          THEN recent_actions' =
                  LastN(Append(recent_actions, Signature(Head(t_todo))), RecentWindow)
          ELSE recent_actions' = recent_actions]_vars

\* C27's case: two executed actions after a window of nine; the second
\* pushed the oldest entry out.
C27_Witness ==
    /\ Len(recent_actions) = RecentWindow
    /\ recent_actions[1] = "input"
    /\ recent_actions[RecentWindow - 1] = "click"
    /\ recent_actions[RecentWindow] = "wait"

\* C32: once stop() is requested, also while the agent is paused, run()
\* eventually returns to its caller with no later resume() needed, every
\* step in flight terminating.
C32_StopEventuallyReturns ==
    (is_stopped /\ pc # "ready") ~> (pc = "ended")

C34_DoneIsAbsorbing ==
    /\ [](is_done => pc \in {"loop", "ended"})
    /\ [][is_done =>
             /\ ~(StepGetState \/ StepLLM \/ StepExecute \/ StepRefresh)
             /\ ~ForceCompletion
             /\ history' = history
             /\ n_steps' = n_steps
             /\ is_done'
             /\ success' = success]_vars

\* C34's case: a run that returned after its first step executed
\* done(success=true), with steps left in its budget.
C34_Witness ==
    /\ pc = "ended"
    /\ is_done
    /\ success = "true"
    /\ Len(history) = 1
    /\ n_steps = 1
    /\ n_steps < max_steps

\* The is_successful property: state.success once Done, None before.
is_successful == IF is_done THEN success ELSE NoneVal

\* C35: state.success is non-null only in a Done state, so is_successful
\* reports None until the run has reached Done.
C35_SuccessOnlyWhenDone ==
    /\ success # NoneVal => is_done
    /\ is_successful # NoneVal => (is_done /\ is_successful = success)

\* C35's case: a returned run whose only step executed done(success=false)
\* as its single action, so success is non-null.
C35_Witness ==
    /\ pc = "ended"
    /\ Len(history) = 1
    /\ history[1].model_output # NoneVal
    /\ Len(history[1].results) = 1
    /\ history[1].results[1].is_done
    /\ is_successful = "false"

\* The detector gives up on the action at the head of the step's list: the
\* action is neither tracked nor executed and the run is Done(false).
DetectorAborts ==
    /\ t_pc = "act"
    /\ recent_actions' = recent_actions
    /\ ~Executed(t_calls')
    /\ t_is_done'
    /\ t_success' = "false"

\* C36: the detector forces Done(false) exactly when the proposed signature
\* occurs at least four times in the window of executed signatures; so a
\* run whose oracle repeats a cycle of period 1 or 2 executes at most four
\* actions per signature of the cycle before it is aborted, and a run
\* whose oracle repeats a cycle of three distinct signatures is never
\* forced to Done by the detector.
C36_StallDetectorByPeriod ==
    /\ [][t_pc = "act" =>
             (DetectorAborts <=>
                 CountRepeated(Signature(Head(t_todo))) >= 4)]_vars
    /\ [](Len(cycle) \in {1, 2} => Len(recent_actions) <= 4 * Len(cycle))
    /\ [](Len(cycle) >= 3 => ~t_is_done)

\* The step's results hold the result of an executed done(success=true).
DoneTrueExecuted(res) ==
    \E i \in 1..Len(res) : res[i].is_done /\ res[i].success = "true"

\* C39: the success run() reports becomes true only in a step in which a
\* done action with success=true was executed; a run that returned without
\* reaching Done (its steps used up, or stopped) reports false, and so does
\* a run whose last step the detector ended by giving up on an action.
C39_SuccessOnlyByDoneTrue ==
    /\ [][(workflow_success' /\ ~workflow_success) =>
             /\ t_pc = "act"
             /\ \/ DoneTrueExecuted(t_results)
                \/ Head(t_todo) = "done_true" /\ Executed(t_calls')]_vars
    /\ []((t_pc = "ended" /\ ~t_is_done) => ~workflow_success)
    /\ [][(t_pc = "act" /\ StillLooping(Signature(Head(t_todo)))) =>
             ~workflow_success']_vars

\* The entries a description shows, by their positions in the history.
Shown(d) == [j \in 1..Len(d.items) |-> d.items[j].entry]

\* The positions of the last k entries of n, in order (all of them for no
\* limit or a limit of n or more).
MostRecent(n, k) ==
    LET count == IF k # 0 /\ k < n THEN k ELSE n
    IN  [j \in 1..count |-> n - count + j]

\* C20: every operation keeps the recorded entries, in their order; a
\* rendering under a limit shows the most recent entries only and leaves the
\* stored history as it was.
C20_HistoryAppendOnly ==
    [][/\ Len(history') >= Len(history)
       /\ SubSeq(history', 1, Len(history)) = history
       /\ history_description' # history_description =>
             /\ history' = history
             /\ Shown(history_description') =
                    MostRecent(Len(history), history_description'.max_items)
             /\ \A j \in 1..Len(history_description'.items) :
                    history_description'.items[j] =
                        Summary(history, Shown(history_description')[j])]_vars

\* C20's case: of two recorded entries a rendering limited to one item shows
\* the second.
C20_Witness ==
    /\ Len(history) = 2
    /\ history_description.max_items = 1
    /\ Shown(history_description) = <<2>>

(* ==================== properties of the library ======================= *)
\* C12: no ActionResult is constructed with a non-null success (true or
\* false) while is_done is false; such a construction is rejected.
C12_SuccessRequiresDone ==
    (ar_built = "built" /\ ar_kwargs.success # NoneVal) => ar_kwargs.is_done

\* A transition in which get_state took a fresh state from the driver; the
\* immediately preceding snapshot is then the unprimed current_state.
Refreshed == Len(state_history') = Len(state_history) + 1

\* C14: on a refresh whose url is the preceding snapshot's and whose element
\* set contains the preceding one's, the elements marked new are exactly
\* those absent from the immediately preceding snapshot.
C14_NewAgainstPrecedingSnapshot ==
    [][(/\ Refreshed
        /\ current_state # NoState
        /\ current_state'.url = current_state.url
        /\ current_state.elements \subseteq current_state'.elements) =>
          current_state'.new = current_state'.elements \ current_state.elements]_vars

\* C15: on a refresh whose url differs from the immediately preceding
\* snapshot's, no element is marked new.
C15_UrlChangeMarksNothing ==
    [][(/\ Refreshed
        /\ current_state # NoState
        /\ current_state'.url # current_state.url) =>
          current_state'.new = {}]_vars

\* The nodes of the latest tree that carry an index in the snapshot.
Indexed == {i \in 1..Len(dom_tree) : nodes[i].index # 0}

\* C16: in the snapshot of every extract(), a repeated one included, the
\* indices are unique, start at 1 and increase in document order (the k-th
\* indexed node carries k), and the selector map's keys are exactly they.
C16_IndicesFromOneInOrder ==
    (extracted = "returned" /\ dom_tree # <<>>) =>
        /\ \A i \in Indexed :
              nodes[i].index = Cardinality({j \in Indexed : j <= i})
        /\ DOMAIN selector_map = {nodes[i].index : i \in Indexed}
        /\ InteractiveElements = {nodes[i].index : i \in Indexed}

\* C17: every node with an index is an element node that is visible and
\* interactive.
C17_IndexedIsVisibleInteractiveElement ==
    \A id \in DOMAIN nodes :
        nodes[id].index # 0 =>
            /\ IsElement(nodes[id])
            /\ nodes[id].is_visible
            /\ IsInteractive(nodes[id])

\* C17's case: a snapshot holding an indexed button next to a button that
\* is not visible and a text node.
C17_Witness ==
    /\ extracted = "returned"
    /\ Len(dom_tree) = 3
    /\ \E i, j, k \in 1..3 :
          /\ nodes[i].index = 1 /\ nodes[i].kind = "button"
          /\ nodes[j].kind = "button" /\ ~nodes[j].is_visible /\ nodes[j].index = 0
          /\ nodes[k].kind = "text" /\ nodes[k].index = 0

\* Node i of the tree lies inside an element that is not displayed.
RECURSIVE InsideHidden(_, _)
InsideHidden(tree, i) ==
    /\ Parent(tree, i) # 0
    /\ \/ tree[Parent(tree, i)].layout = "display_none"
       \/ InsideHidden(tree, Parent(tree, i))

\* C18: a button inside an element that is not displayed, with no layout
\* entry of its own, gets no index and no selector-map entry; a displayed
\* button outside any such element gets an index.
C18_HiddenSubtreeNotIndexed ==
    extracted = "returned" =>
        \A i \in 1..Len(dom_tree) :
            /\ (/\ dom_tree[i].kind = "button"
                /\ dom_tree[i].layout = "absent"
                /\ InsideHidden(dom_tree, i)) =>
                  /\ nodes[i].index = 0
                  /\ \A k \in DOMAIN selector_map : selector_map[k] # i
            /\ (/\ dom_tree[i].kind = "button"
                /\ dom_tree[i].layout = "visible"
                /\ ~InsideHidden(dom_tree, i)) =>
                  nodes[i].index # 0

\* C19: the serializer's text is never longer than max_length, and when the
\* untruncated text is longer the returned SerializedDOM carries a truncated
\* flag that is set.
C19_BoundedAndFlagged ==
    /\ ser_pc \in {"serialize", "serialize_dom_for_llm"} =>
          /\ serialized.llm_representation <= ser_input.max_length
          /\ JoinedLength(Lines(ser_input)) > ser_input.max_length =>
                ("truncated" \in DOMAIN serialized /\ serialized["truncated"])
    /\ ser_pc = "serialize_dom_for_llm" => llm_text <= ser_input.max_length


\* The sort key the lines are to be ordered by: (bounds.y, bounds.x), with
\* 0 for what an element without bounds lacks.
PositionKey(e) == IF e.bounds = <<>> THEN <<0, 0>> ELSE <<e.bounds[2], e.bounds[1]>>

KeyAtMost(k, l) == k[1] < l[1] \/ (k[1] = l[1] /\ k[2] <= l[2])

\* C28: serialize emits exactly one line per visible indexed element, in
\* ascending order of (bounds.y, bounds.x) whatever the document order, for
\* every state the tree builder can produce, elements without bounds
\* included.
C28_OneLinePerElementByPosition ==
    (fn = "_get_sorted_elements" /\ fn_result # <<>>) =>
        /\ fn_result.raised = NoneVal
        /\ Len(fn_result.lines) = Len(fn_args)
        /\ \A i \in 1..Len(fn_args) :
              \E j \in 1..Len(fn_result.lines) : fn_result.lines[j] = i
        /\ \A i, j \in 1..Len(fn_result.lines) :
              i < j => KeyAtMost(PositionKey(fn_args[fn_result.lines[i]]),
                                 PositionKey(fn_args[fn_result.lines[j]]))


\* The bottom edges of the nodes that have bounds.
Bottoms(in) ==
    {in.nodes[i][1] + in.nodes[i][2] :
        i \in {k \in 1..Len(in.nodes) : in.nodes[k] # <<>>}}

\* C29: for integer scrollY, viewportHeight > 0 and node bounds, pageHeight
\* is the larger of viewportHeight and the largest bottom edge of a node,
\* pagesAbove is scrollY / viewportHeight, pagesBelow is
\* (pageHeight - scrollY - viewportHeight) / viewportHeight or 0 when that
\* is negative, and each flag holds exactly when its value exceeds 0.1; for
\* scrollY = 800, viewportHeight = 720 and pageHeight = 2000 both hold.
C29_PagingIndicators ==
    (fn = "serialize" /\ fn_result # <<>> /\ fn_args.viewport_height > 0) =>
        LET sy == fn_args.scroll_y
            vh == fn_args.viewport_height
            ph == fn_result.page_height
            rest == ph - sy - vh
        IN  /\ ph \in {vh} \cup Bottoms(fn_args)
            /\ \A b \in {vh} \cup Bottoms(fn_args) : b <= ph
            /\ fn_result.pages_above[1] * vh = sy * fn_result.pages_above[2]
            /\ fn_result.pages_below[1] >= 0 /\ fn_result.pages_below[2] > 0
            /\ fn_result.pages_below[1] * vh =
                  (IF rest > 0 THEN rest ELSE 0) * fn_result.pages_below[2]
            /\ fn_result.has_content_above <=> 10 * sy > vh
            /\ fn_result.has_content_below <=> 10 * rest > vh
            /\ (sy = 800 /\ vh = 720 /\ ph = 2000) =>
                  (fn_result.has_content_above /\ fn_result.has_content_below)

\* C29's case: the indicators of a page of height 2000 scrolled to 800 in
\* a viewport of 720.
C29_Witness ==
    /\ fn = "serialize"
    /\ fn_result # <<>>
    /\ fn_args.scroll_y = 800
    /\ fn_args.viewport_height = 720
    /\ fn_result.page_height = 2000
    /\ fn_result.has_content_above
    /\ fn_result.has_content_below


\* C30: a node is interactive exactly when it is an element and its tag is
\* one of a, button, input, select, textarea, label, details, summary,
\* dialog, or an interactive ARIA role is present for it (in its role
\* attribute or in its accessibility-tree entry), or it has an onclick
\* attribute, a tabindex attribute, or contenteditable=true.
C30_InteractiveExactlyWhen ==
    (fn = "is_interactive" /\ fn_result # <<>>) =>
        (fn_result.value <=>
            /\ fn_args.node_type = "ELEMENT_NODE"
            /\ \/ fn_args.tag_name \in InteractiveTags
               \/ is_interactive_role(fn_args.role)
               \/ is_interactive_role(fn_args.ax_role)
               \/ fn_args.onclick # NoneVal
               \/ fn_args.tabindex # NoneVal
               \/ fn_args.contenteditable = "true")


\* C31: extract() does not raise when one, two or all three of the raw
\* sources fail to be obtained: it returns a state built from the sources
\* that succeeded, and a node without layout data is visible.
C31_FailedSourcesDegrade ==
    failed_sources # {} =>
        /\ extracted = "returned"
        /\ "dom" \notin failed_sources =>
              \A i \in 1..Len(dom_tree) :
                  dom_tree[i].layout = "absent" => nodes[i].is_visible

\* C37: when get_state has fetched a fresh state, the session's selector map
\* has exactly the indices of the elements of the state it returns.
C37_SelectorMapMatchesState ==
    [][Len(state_history') > Len(state_history) =>
          session_selector_map' = returned_state'.elements]_vars

\* C38: on a session that was started again (its second or a later driver
\* is launched and the session is active), an operation's event reaches a
\* handler, which calls the session's current driver: the operation never
\* completes without a browser operation.
C38_RestartedSessionDelivers ==
    [][(is_active /\ launches >= 2 /\ SessionOperation) =>
          /\ dispatched'.outcome # "completed"
          /\ dispatched'.reached = driver]_vars

\* C40: every serialize() call on one serializer returns what the first
\* call returned: the same text and the same page statistics.
C40_SerializeIdempotent ==
    \A i \in 1..Len(serialize_returns) :
        serialize_returns[i] = serialize_returns[1]

====
